---- MODULE Spec2Model ----
(***************************************************************************)
(* econ-cpi-rates.py: a batch script that resolves a target (year, month), *)
(* fetches one year of the CPI-U series from the BLS API, filters the      *)
(* requested month, inserts it into BaseData.gis.ECON_CPI_RATES unless a   *)
(* row for that month exists, and lists the latest 12 rows.                *)
(*                                                                         *)
(* One invocation of the script is a process p; its module-level names     *)
(* (now, lastMonth, blsYear, inf, var, row ...) are the fields of run[p].  *)
(* The table is the shared variable store (a heap of rows, in insertion    *)
(* order, with no uniqueness constraint).                                  *)
(***************************************************************************)
EXTENDS Integers, Sequences, FiniteSets, TLC

VARIABLES
    store,      \* BaseData.gis.ECON_CPI_RATES: sequence of [CPI_YR, CPI_MTH, CPI_RATE]
    run,        \* run[p]: the module-level names and outputs of invocation p
    runs,       \* number of invocations started so far
    lastCall    \* history: the latest completed check-then-insert (lines 140-155)

vars == <<store, run, runs, lastCall>>

----------------------------------------------------------------------------
(* Bounds and input sets *)

MaxRuns == 2            \* invocations started in one behaviour
InitRows == 12          \* rows of the pre-existing history in a non-empty initial table
BaseYear == 2019        \* first calendar year of the modelled window

Procs == {"a", "b"}     \* two invocations, for the overlapping case
SeqProcs == {"a"}       \* non-overlapping runs reuse one slot

\* the limit of the history listing: SELECT TOP(12)
HistoryLimit == 12

----------------------------------------------------------------------------
(* Python values: sys.argv holds strings, datetime fields are ints.        *)
(* A string is a sequence of one-character strings.                        *)

DigitChars == <<"0", "1", "2", "3", "4", "5", "6", "7", "8", "9">>

PyInt(n) == [t |-> "int", n |-> n, s |-> <<>>]
PyStr(s) == [t |-> "str", n |-> 0, s |-> s]

RECURSIVE IntToStr(_)
\* str(n) for a non-negative int: decimal digits without padding
IntToStr(n) ==
    IF n < 10 THEN <<DigitChars[n + 1]>>
    ELSE Append(IntToStr(n \div 10), DigitChars[(n % 10) + 1])

\* str(x): the identity on a str, the decimal digits of an int
str(x) == IF x.t = "int" THEN IntToStr(x.n) ELSE x.s

DigitVal(c) == CHOOSE d \in 0..9 : DigitChars[d + 1] = c

RECURSIVE ParseInt(_)
\* the number a digit string denotes (leading zeros allowed), as the date
\* parsers and the SQL parser read it
ParseInt(s) ==
    IF s = <<>> THEN 0
    ELSE 10 * ParseInt(SubSeq(s, 1, Len(s) - 1)) + DigitVal(s[Len(s)])

\* the position of the first occurrence of character c in s (0 if none)
IndexOf(s, c) ==
    IF \E i \in 1..Len(s) : s[i] = c
    THEN CHOOSE i \in 1..Len(s) : s[i] = c /\ \A j \in 1..(i - 1) : s[j] # c
    ELSE 0

\* chronological order on <<year, month>>
Later(a, b) == a[1] > b[1] \/ (a[1] = b[1] /\ a[2] > b[2])

----------------------------------------------------------------------------
(* PeriodResolver, lines 60-82 *)

lastMonthNoWrap(now) == now[2] - 1
lastMonthOf(now) == IF now[2] > 1 THEN now[2] - 1 ELSE 12
lastMonthYearOf(now) == IF now[2] > 1 THEN now[1] ELSE now[1] - 1

\* timestring.Date(m + '/1/' + y): the date a 'month/day/year' text denotes,
\* as <<year, month>> (the day is 1 on both sides of the comparison)
TimestringDate(text) ==
    LET i == IndexOf(text, "/")
        rest == SubSeq(text, i + 1, Len(text))
        j == IndexOf(rest, "/")
    IN  <<ParseInt(SubSeq(rest, j + 1, Len(rest))), ParseInt(SubSeq(text, 1, i - 1))>>

DateText(m, y) == str(m) \o <<"/", "1", "/">> \o str(y)

\* line 67: sys.argv counts the script name, so this is "two or more
\* positional arguments"
OverrideGivenExactlyTwo(sys_argv) == Len(sys_argv) = 3
OverrideGiven(sys_argv) == Len(sys_argv) > 2

\* line 71
IsFutureInclusive(blsMonth, blsYear, lastMonth, lastMonthYear) ==
    ~ Later(TimestringDate(DateText(PyInt(lastMonth), PyInt(lastMonthYear))),
            TimestringDate(DateText(blsMonth, blsYear)))
IsFuture(blsMonth, blsYear, lastMonth, lastMonthYear) ==
    Later(TimestringDate(DateText(blsMonth, blsYear)),
          TimestringDate(DateText(PyInt(lastMonth), PyInt(lastMonthYear))))

----------------------------------------------------------------------------
(* SeriesFetcher and MonthExtractor, lines 104-124 *)

\* month index of a period, and back
PeriodIndex(y, m) == y * 12 + (m - 1)
PeriodOf(i) == <<i \div 12, (i % 12) + 1>>

\* the CPI value (in tenths) the source publishes for a month in revision v
Rate(v, y, m) == 2500 + 10 * (PeriodIndex(y, m) - PeriodIndex(BaseYear, 1)) + v

\* bls.get_series('CUUR0000SA0', blsYear, blsYear, key): the months of that one
\* year published so far (1..k), in revision v
FetchedSeries(blsYear, k, v) ==
    LET y == ParseInt(str(blsYear))
    IN  {[yr |-> y, mth |-> m, value |-> Rate(v, y, m)] : m \in 1..k}

\* line 116: the key text
KeyText(blsYear, blsMonth) == str(blsYear) \o <<"-">> \o str(blsMonth)

\* the month a 'year-month' key denotes in the series' index
PandasPeriod(key) ==
    LET i == IndexOf(key, "-")
    IN  <<ParseInt(SubSeq(key, 1, i - 1)), ParseInt(SubSeq(key, i + 1, Len(key)))>>

\* inf.loc[key, :]: the values indexed by the key's month; {} is the KeyError
LocLatest(inf, key) ==
    {e.value : e \in {e \in inf : \A f \in inf : f.mth <= e.mth}}
Loc(inf, key) ==
    LET k == PandasPeriod(key)
    IN  {e.value : e \in {e \in inf : e.yr = k[1] /\ e.mth = k[2]}}

----------------------------------------------------------------------------
(* The table, lines 137-167 *)

\* a number as the SQL text or an INSERT parameter carries it: an int as is,
\* a string converted to the column's integer type
SqlInt(x) == IF x.t = "int" THEN x.n ELSE ParseInt(x.s)

\* line 137: SELECT ... WHERE CPI_YR = <str(blsYear)> AND CPI_MTH = <str(blsMonth)>
ExistingMatchesAsText(table, blsYear, blsMonth) ==
    LET Test(r) == IntToStr(r.CPI_YR) = str(blsYear) /\ IntToStr(r.CPI_MTH) = str(blsMonth)
    IN  SelectSeq(table, Test)
ExistingMatchesYearOnly(table, blsYear, blsMonth) ==
    LET Test(r) == r.CPI_YR = ParseInt(str(blsYear))
    IN  SelectSeq(table, Test)
ExistingMatches(table, blsYear, blsMonth) ==
    LET y == ParseInt(str(blsYear))
        m == ParseInt(str(blsMonth))
        Test(r) == r.CPI_YR = y /\ r.CPI_MTH = m
    IN  SelectSeq(table, Test)

\* line 150-151: the row INSERT ... VALUES (?,?,?) adds for (blsYear, blsMonth, var)
NewRow(blsYear, blsMonth, var) ==
    [CPI_YR |-> SqlInt(blsYear), CPI_MTH |-> SqlInt(blsMonth), CPI_RATE |-> var]

RowPeriod(r) == <<r.CPI_YR, r.CPI_MTH>>

RemoveAt(s, i) == SubSeq(s, 1, i - 1) \o SubSeq(s, i + 1, Len(s))

RECURSIVE TopDesc(_, _)
\* the possible results of SELECT TOP(n) ... ORDER BY CPI_YR DESC, CPI_MTH DESC:
\* rows with equal (year, month) come in either order
TopDesc(table, n) ==
    IF n = 0 \/ table = <<>> THEN {<<>>}
    ELSE UNION { { <<table[i]>> \o t : t \in TopDesc(RemoveAt(table, i), n - 1) } :
                 i \in { i \in DOMAIN table :
                         \A j \in DOMAIN table : ~ Later(RowPeriod(table[j]), RowPeriod(table[i])) } }

RECURSIVE TopAsc(_, _)
TopAsc(table, n) ==
    IF n = 0 \/ table = <<>> THEN {<<>>}
    ELSE UNION { { <<table[i]>> \o t : t \in TopAsc(RemoveAt(table, i), n - 1) } :
                 i \in { i \in DOMAIN table :
                         \A j \in DOMAIN table : ~ Later(RowPeriod(table[i]), RowPeriod(table[j])) } }

\* line 160: the history listing
recentAscending(table, limit) == TopAsc(table, limit)
recent(table, limit) == TopDesc(table, limit)

----------------------------------------------------------------------------
(* One invocation of the script *)

\* the module-level names before line 60 has run, and no output yet
Fresh ==
    [pc |-> "idle", sys_argv |-> <<>>, now |-> <<0, 0>>,
     lastMonth |-> 0, lastMonthYear |-> 0, blsYear |-> PyInt(0), blsMonth |-> PyInt(0),
     inf |-> {}, var |-> 0, conn |-> FALSE, row |-> <<>>,
     outcome |-> "none", listing |-> <<>>, exitCode |-> -1, err |-> "none",
     startStore |-> <<>>]

NoCall == [yr |-> 0, mth |-> 0, rate |-> 0, outcome |-> "none"]

\* sys.exit(1), or an uncaught exception (the interpreter's exit status is 1 too)
Exit(r, why) == [r EXCEPT !.pc = "exited", !.exitCode = 1, !.err = why]

\* lines 60-82: read the clock, default to the previous month, apply and
\* validate the override
Resolve(p, now, sys_argv) ==
    /\ run[p].pc \in {"idle", "exited"}
    /\ runs < MaxRuns
    /\ LET lastMonth == lastMonthOf(now)
           lastMonthYear == lastMonthYearOf(now)
           given == OverrideGiven(sys_argv)
           blsYear == IF given THEN PyStr(sys_argv[2]) ELSE PyInt(lastMonthYear)
           blsMonth == IF given THEN PyStr(sys_argv[3]) ELSE PyInt(lastMonth)
           r == [Fresh EXCEPT !.sys_argv = sys_argv, !.now = now,
                              !.lastMonth = lastMonth, !.lastMonthYear = lastMonthYear,
                              !.blsYear = blsYear, !.blsMonth = blsMonth,
                              !.startStore = store]
       IN  run' = [run EXCEPT ![p] =
                      IF given /\ IsFuture(blsMonth, blsYear, lastMonth, lastMonthYear)
                      THEN Exit(r, "FutureDate")
                      ELSE [r EXCEPT !.pc = "apikey"]]
    /\ runs' = runs + 1
    /\ UNCHANGED <<store, lastCall>>

\* lines 93-100: the API key must be in the environment
ApiKey(p, present) ==
    /\ run[p].pc = "apikey"
    /\ run' = [run EXCEPT ![p] =
                  IF present THEN [@ EXCEPT !.pc = "fetch"]
                  ELSE Exit(@, "ConfigurationMissing")]
    /\ UNCHANGED <<store, runs, lastCall>>

\* lines 104-111: one year of the series; a failed request raises
Fetch(p, ok, k, v) ==
    /\ run[p].pc = "fetch"
    /\ run' = [run EXCEPT ![p] =
                  IF ok THEN [@ EXCEPT !.pc = "extract",
                                       !.inf = FetchedSeries(run[p].blsYear, k, v)]
                  ELSE Exit(@, "UpstreamUnavailable")]
    /\ UNCHANGED <<store, runs, lastCall>>

\* lines 115-124: filter the month; KeyError means not published yet.
\* A variant that, on KeyError, goes on with a zero value instead of exiting.
ExtractNoExit(p) ==
    /\ run[p].pc = "extract"
    /\ LET found == Loc(run[p].inf, KeyText(run[p].blsYear, run[p].blsMonth))
       IN  run' = [run EXCEPT ![p] =
                      IF found = {} THEN [@ EXCEPT !.pc = "connect", !.err = "ObservationNotFound"]
                      ELSE [@ EXCEPT !.pc = "connect", !.var = CHOOSE x \in found : TRUE]]
    /\ UNCHANGED <<store, runs, lastCall>>

Extract(p) ==
    /\ run[p].pc = "extract"
    /\ LET found == Loc(run[p].inf, KeyText(run[p].blsYear, run[p].blsMonth))
       IN  run' = [run EXCEPT ![p] =
                      IF found = {} THEN Exit(@, "ObservationNotFound")
                      ELSE [@ EXCEPT !.pc = "connect", !.var = CHOOSE x \in found : TRUE]]
    /\ UNCHANGED <<store, runs, lastCall>>

\* lines 127-135: credentials from the keyring (None when absent, and the
\* string concatenation of line 134 raises), then the connection
Connect(p, creds, reachable) ==
    /\ run[p].pc = "connect"
    /\ run' = [run EXCEPT ![p] =
                  IF ~ creds THEN Exit(@, "ConfigurationMissing")
                  ELSE IF ~ reachable THEN Exit(@, "StoreUnavailable")
                  ELSE [@ EXCEPT !.pc = "select", !.conn = TRUE]]
    /\ UNCHANGED <<store, runs, lastCall>>

CallOf(r, outcome) ==
    [yr |-> SqlInt(r.blsYear), mth |-> SqlInt(r.blsMonth), rate |-> r.var, outcome |-> outcome]

\* A variant that writes the new rate over the rows it found.
SelectUpsert(p) ==
    /\ run[p].pc = "select"
    /\ LET row == ExistingMatches(store, run[p].blsYear, run[p].blsMonth)
       IN  /\ run' = [run EXCEPT ![p] =
                  IF Len(row) > 0 THEN [@ EXCEPT !.pc = "report", !.row = row, !.outcome = "AlreadyPresent"]
                  ELSE [@ EXCEPT !.pc = "insert", !.row = row]]
           /\ lastCall' = IF Len(row) > 0 THEN CallOf(run[p], "AlreadyPresent") ELSE lastCall
           /\ store' = [i \in DOMAIN store |->
                          IF RowPeriod(store[i]) = <<SqlInt(run[p].blsYear), SqlInt(run[p].blsMonth)>>
                          THEN [store[i] EXCEPT !.CPI_RATE = run[p].var] ELSE store[i]]
    /\ UNCHANGED runs

\* lines 137-148: the existence check; with a match, nothing is written
Select(p) ==
    /\ run[p].pc = "select"
    /\ LET row == ExistingMatches(store, run[p].blsYear, run[p].blsMonth)
       IN  /\ run' = [run EXCEPT ![p] =
                  IF Len(row) > 0 THEN [@ EXCEPT !.pc = "report", !.row = row, !.outcome = "AlreadyPresent"]
                  ELSE [@ EXCEPT !.pc = "insert", !.row = row]]
           /\ lastCall' = IF Len(row) > 0 THEN CallOf(run[p], "AlreadyPresent") ELSE lastCall
    /\ UNCHANGED <<store, runs>>

\* A variant under a uniqueness constraint: a second row for the month is refused.
InsertUnique(p) ==
    /\ run[p].pc = "insert"
    /\ LET dup == Len(ExistingMatches(store, run[p].blsYear, run[p].blsMonth)) > 0
       IN  /\ store' = IF dup THEN store
                       ELSE Append(store, NewRow(run[p].blsYear, run[p].blsMonth, run[p].var))
           /\ run' = [run EXCEPT ![p] =
                         IF dup THEN Exit(@, "StoreUnavailable")
                         ELSE [@ EXCEPT !.pc = "report", !.outcome = "Inserted"]]
           /\ lastCall' = IF dup THEN lastCall ELSE CallOf(run[p], "Inserted")
    /\ UNCHANGED runs

\* lines 149-155: INSERT and commit
Insert(p) ==
    /\ run[p].pc = "insert"
    /\ store' = Append(store, NewRow(run[p].blsYear, run[p].blsMonth, run[p].var))
    /\ run' = [run EXCEPT ![p] = [@ EXCEPT !.pc = "report", !.outcome = "Inserted"]]
    /\ lastCall' = CallOf(run[p], "Inserted")
    /\ UNCHANGED runs

\* lines 157-169: list the latest rows, then sys.exit(1)
Report(p) ==
    /\ run[p].pc = "report"
    /\ \E l \in recent(store, HistoryLimit) :
          run' = [run EXCEPT ![p] = [@ EXCEPT !.pc = "exited", !.exitCode = 1, !.listing = l]]
    /\ UNCHANGED <<store, runs, lastCall>>

----------------------------------------------------------------------------
(* Inputs *)

ScriptName == <<"e", "c", "o", "n", "-", "c", "p", "i", "-", "r", "a", "t", "e", "s", ".", "p", "y">>

\* sys.argv for the given positional arguments
ArgvOf(args) == <<ScriptName>> \o args

\* a month argument as typed: plain, or zero-padded below 10
MonthTexts(m) == IF m < 10 THEN {IntToStr(m), <<"0">> \o IntToStr(m)} ELSE {IntToStr(m)}

\* every (year, month) of three calendar years, in either spelling
AllOverrides ==
    UNION { { <<IntToStr(y), t>> : t \in MonthTexts(m) } :
            <<y, m>> \in (BaseYear..(BaseYear + 2)) \X (1..12) }

\* zero, one, two, three and four positional arguments
AllArgvs ==
    {ArgvOf(<<>>)}
    \cup {ArgvOf(<<o[1]>>) : o \in AllOverrides}
    \cup {ArgvOf(o) : o \in AllOverrides}
    \cup {ArgvOf(o \o <<IntToStr(7)>>) : o \in AllOverrides}
    \cup {ArgvOf(o \o <<IntToStr(7), IntToStr(7)>>) : o \in AllOverrides}

\* every month of two calendar years as the current date
AllNows == ((BaseYear + 1)..(BaseYear + 2)) \X (1..12)

\* the pre-existing table: empty, or InitRows consecutive months up to
\* October of BaseYear in insertion order
History(n) ==
    [i \in 1..n |->
        LET q == PeriodOf(PeriodIndex(BaseYear, 10) - n + i)
        IN  [CPI_YR |-> q[1], CPI_MTH |-> q[2], CPI_RATE |-> Rate(0, q[1], q[2])]]

InitStores == {<<>>, History(InitRows)}

Init ==
    /\ store \in InitStores
    /\ run = [p \in Procs |-> Fresh]
    /\ runs = 0
    /\ lastCall = NoCall

----------------------------------------------------------------------------
(* Non-overlapping runs: one invocation at a time *)

\* the current dates of the pipeline runs: January and February of BaseYear + 1
Nows == {<<BaseYear + 1, 1>>, <<BaseYear + 1, 2>>}

\* override periods around those dates, one of them zero-padded
Overrides ==
    { <<IntToStr(BaseYear), IntToStr(10)>>, <<IntToStr(BaseYear), IntToStr(12)>>,
      <<IntToStr(BaseYear + 1), IntToStr(1)>>, <<IntToStr(BaseYear + 1), <<"0">> \o IntToStr(1)>>,
      <<IntToStr(BaseYear + 1), IntToStr(2)>> }

Argvs ==
    {ArgvOf(<<>>), ArgvOf(<<IntToStr(BaseYear)>>)}
    \cup {ArgvOf(o) : o \in Overrides}
    \cup {ArgvOf(<<IntToStr(BaseYear), IntToStr(12), IntToStr(7)>>)}

\* months published so far in the fetched year, and revisions of the values
Published == {0, 1, 11, 12}
Revisions == {0, 1}

\* line 60 onwards: an invocation starts when its slot holds no running one
Start(p, nows, argvs) ==
    /\ run[p].pc \in {"idle", "exited"}
    /\ \E now \in nows, a \in argvs : Resolve(p, now, a)

Next ==
    \/ \E p \in SeqProcs : Start(p, Nows, Argvs)
    \/ \E p \in SeqProcs, present \in BOOLEAN : ApiKey(p, present)
    \/ \E p \in SeqProcs, ok \in BOOLEAN, k \in Published, v \in Revisions : Fetch(p, ok, k, v)
    \/ \E p \in SeqProcs : Extract(p)
    \/ \E p \in SeqProcs, creds \in BOOLEAN, reachable \in BOOLEAN : Connect(p, creds, reachable)
    \/ \E p \in SeqProcs : Select(p)
    \/ \E p \in SeqProcs : Insert(p)
    \/ \E p \in SeqProcs : Report(p)

Spec == Init /\ [][Next]_vars

----------------------------------------------------------------------------
(* The first run alone, on every current date and every argument list *)

NextFirstRun ==
    \/ \E p \in SeqProcs : runs = 0 /\ Start(p, AllNows, AllArgvs)
    \/ \E p \in SeqProcs, present \in BOOLEAN : ApiKey(p, present)
    \/ \E p \in SeqProcs, ok \in BOOLEAN, k \in Published, v \in Revisions : Fetch(p, ok, k, v)
    \/ \E p \in SeqProcs : Extract(p)
    \/ \E p \in SeqProcs, creds \in BOOLEAN, reachable \in BOOLEAN : Connect(p, creds, reachable)
    \/ \E p \in SeqProcs : Select(p)
    \/ \E p \in SeqProcs : Insert(p)
    \/ \E p \in SeqProcs : Report(p)

SpecFirstRun == Init /\ [][NextFirstRun]_vars

----------------------------------------------------------------------------
(* Overlapping runs: two invocations, any interleaving of their steps *)

\* both invocations in January of BaseYear + 1, by default or with an override
\* naming the same or the month before
ConcArgvs ==
    {ArgvOf(<<>>), ArgvOf(<<IntToStr(BaseYear), IntToStr(12)>>),
     ArgvOf(<<IntToStr(BaseYear), IntToStr(11)>>)}

ConcNows == {<<BaseYear + 1, 1>>}
ConcPublished == {11, 12}

NextConc ==
    \/ \E p \in Procs : Start(p, ConcNows, ConcArgvs)
    \/ \E p \in Procs, present \in BOOLEAN : ApiKey(p, present)
    \/ \E p \in Procs, ok \in BOOLEAN, k \in ConcPublished, v \in Revisions : Fetch(p, ok, k, v)
    \/ \E p \in Procs : Extract(p)
    \/ \E p \in Procs, creds \in BOOLEAN, reachable \in BOOLEAN : Connect(p, creds, reachable)
    \/ \E p \in Procs : Select(p)
    \/ \E p \in Procs : Insert(p)
    \/ \E p \in Procs : Report(p)

SpecConc == Init /\ [][NextConc]_vars

----------------------------------------------------------------------------
(* Properties *)

Range(s) == {s[i] : i \in DOMAIN s}
Min(a, b) == IF a < b THEN a ELSE b

\* the (year, month) an invocation has resolved, as the table's integers
PeriodOfRun(r) == <<SqlInt(r.blsYear), SqlInt(r.blsMonth)>>

\* number of rows of the table for a (year, month)
Count(table, q) == Cardinality({i \in DOMAIN table : RowPeriod(table[i]) = q})

\* positional arguments of an invocation
Positional(r) == Len(r.sys_argv) - 1

\* C1: under non-overlapping runs the table never holds two rows for one
\* (year, month), whatever the initial (duplicate-free) table, the periods,
\* the fetched series and the outcomes of the runs.
C1_AtMostOneRowPerPeriod ==
    \A i, j \in DOMAIN store : RowPeriod(store[i]) = RowPeriod(store[j]) => i = j

\* a later run, given a zero-padded month, finds the row an earlier run inserted
C1_Witness ==
    \E p \in SeqProcs :
        /\ run[p].outcome = "AlreadyPresent"
        /\ run[p].blsMonth = PyStr(<<"0", "1">>)
        /\ Count(store, <<BaseYear + 1, 1>>) = 1
        /\ runs = 2

\* the step of p that completes the check-then-insert of lines 140-155
Completes(p) == run[p].pc \in {"select", "insert"} /\ run'[p].pc = "report"

\* C2: a check-then-insert on a table with no row for the period inserts and
\* leaves exactly one row for it, carrying (year, month, rate); the next
\* check-then-insert with the same observation reports AlreadyPresent and the
\* table still holds exactly that one row.
C2_Idempotent ==
    [][\A p \in SeqProcs :
          LET q == PeriodOfRun(run[p])
              obs == NewRow(run[p].blsYear, run[p].blsMonth, run[p].var)
              one == /\ Count(store', q) = 1
                     /\ \E i \in DOMAIN store' : store'[i] = obs
          IN  /\ (run[p].pc = "select" /\ run'[p].pc # "select" /\ Count(store, q) = 0)
                    => run'[p].pc = "insert"
              /\ (Completes(p) /\ Count(store, q) = 0)
                    => (run'[p].outcome = "Inserted" /\ one)
              /\ (Completes(p) /\ lastCall = CallOf(run[p], "Inserted"))
                    => (run'[p].outcome = "AlreadyPresent" /\ one)
      ]_vars

\* a run found the very row (same rate) that the run before it inserted
C2_Witness ==
    \E p \in SeqProcs :
        /\ run[p].outcome = "AlreadyPresent"
        /\ run[p].row = <<NewRow(run[p].blsYear, run[p].blsMonth, run[p].var)>>
        /\ Count(run[p].startStore, PeriodOfRun(run[p])) = 1
        /\ Later(PeriodOfRun(run[p]), <<BaseYear, 10>>)

\* C3: when the table holds a row for the period, the check reports
\* AlreadyPresent and writes nothing, whatever the new rate; and no step of
\* any run updates or deletes a row (the table only grows at its end).
C3_NoOverwrite ==
    [][/\ \A p \in SeqProcs :
            (run[p].pc = "select" /\ run'[p].pc # "select"
                /\ Count(store, PeriodOfRun(run[p])) >= 1)
            => (run'[p].outcome = "AlreadyPresent" /\ run'[p].pc = "report" /\ store' = store)
       /\ Len(store') >= Len(store)
       /\ SubSeq(store', 1, Len(store)) = store
      ]_vars

\* a run found a row whose rate differs from the one it fetched
C3_Witness ==
    \E p \in SeqProcs :
        /\ run[p].outcome = "AlreadyPresent"
        /\ Len(run[p].row) = 1
        /\ run[p].row[1].CPI_RATE # run[p].var
        /\ store = run[p].startStore

\* C4: without an override the resolved period is the calendar month before
\* now's month: (year, month - 1) after January, (year - 1, 12) in January,
\* and its month is in 1..12.
C4_PreviousMonth ==
    \A p \in SeqProcs :
        (run[p].pc # "idle" /\ Positional(run[p]) < 2) =>
            LET now == run[p].now
                q == PeriodOfRun(run[p])
            IN  /\ now[2] > 1 => q = <<now[1], now[2] - 1>>
                /\ now[2] = 1 => q = <<now[1] - 1, 12>>
                /\ q[2] \in 1..12
                /\ PeriodIndex(q[1], q[2]) + 1 = PeriodIndex(now[1], now[2])

\* a default run in January resolves December of the year before
C4_Witness ==
    \E p \in SeqProcs :
        /\ run[p].pc # "idle"
        /\ Positional(run[p]) = 0
        /\ run[p].now = <<BaseYear + 1, 1>>
        /\ PeriodOfRun(run[p]) = <<BaseYear, 12>>

\* the override (year, month) an invocation was given
OverrideOf(r) == <<ParseInt(r.sys_argv[2]), ParseInt(r.sys_argv[3])>>

\* no fetch, no connection, no query and no write happened in the run
NothingDone(r) ==
    /\ r.inf = {} /\ ~ r.conn /\ r.row = <<>> /\ r.outcome = "none" /\ r.listing = <<>>
    /\ store = r.startStore

\* C5: an override is rejected (FutureDate) exactly when it is later than the
\* month before now; an accepted override is used literally; a rejected one
\* ends the run with exit code 1 before any fetch or table access.
C5_FutureOverrideRejected ==
    \A p \in SeqProcs :
        LET r == run[p] IN
        /\ (r.pc # "idle" /\ Positional(r) >= 2) =>
              LET ov == OverrideOf(r)
                  later == PeriodIndex(ov[1], ov[2]) > PeriodIndex(r.now[1], r.now[2]) - 1
              IN  /\ (r.err = "FutureDate") <=> later
                  /\ ~ later => (r.blsYear = PyStr(r.sys_argv[2]) /\ r.blsMonth = PyStr(r.sys_argv[3]))
                  /\ ov = r.now => r.err = "FutureDate"
        /\ r.err = "FutureDate" =>
              (r.pc = "exited" /\ r.exitCode = 1 /\ Positional(r) >= 2 /\ NothingDone(r))

\* an override naming the current month was rejected
C5_Witness ==
    \E p \in SeqProcs :
        /\ Positional(run[p]) = 2
        /\ OverrideOf(run[p]) = run[p].now
        /\ run[p].err = "FutureDate"
        /\ run[p].pc = "exited"

\* the value the fetched series holds for a (year, month), if any
SeriesValues(inf, q) == {e.value : e \in {e \in inf : <<e.yr, e.mth>> = q}}

\* C6: the month filter exits with ObservationNotFound when the series has no
\* entry for the resolved period, and otherwise yields exactly that entry's
\* value; the inserted row carries that value.
C6_ExtractExact ==
    [][\A p \in SeqProcs :
          LET r == run[p]
              vals == SeriesValues(r.inf, PeriodOfRun(r))
          IN  /\ (r.pc = "extract" /\ run'[p].pc # "extract") =>
                    IF vals = {}
                    THEN run'[p].pc = "exited" /\ run'[p].err = "ObservationNotFound"
                    ELSE run'[p].pc = "connect" /\ vals = {run'[p].var}
              /\ (r.pc = "insert" /\ run'[p].pc # "insert") =>
                    /\ Len(store') = Len(store) + 1
                    /\ vals = {store'[Len(store')].CPI_RATE}
                    /\ RowPeriod(store'[Len(store')]) = PeriodOfRun(r)
      ]_vars

\* a run inserted the value of a month that is not the last one of a full year
C6_Witness ==
    \E p \in SeqProcs :
        /\ run[p].outcome = "Inserted"
        /\ Cardinality(run[p].inf) = 12
        /\ PeriodOfRun(run[p])[2] = 3
        /\ store[Len(store)].CPI_RATE = Rate(1, PeriodOfRun(run[p])[1], 3)

\* C7: after a run without error the listing holds min(12, rows) rows of the
\* table, strictly descending by (year, month), none of the rows left out
\* being later than a listed one; after an insert the table it lists is the
\* one holding the new row.
C7_RecentDescending ==
    \A p \in SeqProcs :
        LET r == run[p] IN
        (r.pc = "exited" /\ r.err = "none") =>
            /\ Len(r.listing) = Min(HistoryLimit, Len(store))
            /\ \A i \in 1..(Len(r.listing) - 1) :
                  Later(RowPeriod(r.listing[i]), RowPeriod(r.listing[i + 1]))
            /\ Range(r.listing) \subseteq Range(store)
            /\ \A x \in Range(store) \ Range(r.listing), l \in Range(r.listing) :
                  Later(RowPeriod(l), RowPeriod(x))
            /\ r.outcome = "Inserted" =>
                  LET new == NewRow(r.blsYear, r.blsMonth, r.var)
                  IN  /\ store = Append(r.startStore, new)
                      /\ (\A x \in Range(r.startStore) : Later(RowPeriod(new), RowPeriod(x)))
                            => (r.listing # <<>> /\ r.listing[1] = new)

\* a run inserted the latest month into a table of 12 rows or more: the
\* listing is cut to 12 rows and starts with the new row
C7_Witness ==
    \E p \in SeqProcs :
        /\ run[p].pc = "exited" /\ run[p].err = "none"
        /\ run[p].outcome = "Inserted"
        /\ Len(store) > HistoryLimit
        /\ Len(run[p].listing) = HistoryLimit
        /\ run[p].listing[1] = store[Len(store)]

\* the run ended with exit code 1 having neither ingested nor listed
Terminal(r) ==
    /\ r.pc = "exited" /\ r.exitCode = 1
    /\ r.outcome = "none" /\ r.row = <<>> /\ r.listing = <<>>
    /\ store = r.startStore

\* C8: every error ends the run: exit code 1, nothing inserted (the table is
\* the one the run started with), no existence check and no listing; the next
\* step of that slot can only be a new invocation.
C8_ErrorsTerminal ==
    [][\A p \in SeqProcs :
          /\ run'[p].err # "none" =>
                /\ run'[p].pc = "exited" /\ run'[p].exitCode = 1
                /\ run'[p].outcome = "none" /\ run'[p].row = <<>> /\ run'[p].listing = <<>>
                /\ store' = run'[p].startStore
          /\ (run[p].err # "none" /\ run'[p] # run[p]) => runs' = runs + 1
      ]_vars

\* the second run found its month not yet published, on a table the first run
\* had written to
C8_Witness ==
    \E p \in SeqProcs :
        /\ run[p].err = "ObservationNotFound"
        /\ Terminal(run[p])
        /\ runs = 2
        /\ Len(store) \in {1, InitRows + 1}

\* the invocation has checked the table, found no row, and is past its insert
PastInsert(r) == r.conn /\ r.row = <<>> /\ r.pc \in {"report", "exited"}

\* C9: when two overlapping invocations for one period both pass the existence
\* check before either insert commits, both report Inserted and the table
\* holds two rows for the period.
C9_RaceDuplicates ==
    \A p, q \in Procs :
        (p # q /\ PastInsert(run[p]) /\ PastInsert(run[q])
              /\ PeriodOfRun(run[p]) = PeriodOfRun(run[q])) =>
            /\ run[p].outcome = "Inserted"
            /\ run[q].outcome = "Inserted"
            /\ Count(store, PeriodOfRun(run[p])) = 2

\* both invocations finished, both inserted, and the table holds the month twice
C9_Witness ==
    /\ \A p \in Procs : run[p].pc = "exited" /\ run[p].outcome = "Inserted"
    /\ PeriodOfRun(run["a"]) = PeriodOfRun(run["b"])
    /\ Count(store, PeriodOfRun(run["a"])) = 2
    /\ ~ C1_AtMostOneRowPerPeriod

\* the period is the override as typed / the default previous month
UsesOverride(r) ==
    Len(r.sys_argv) >= 3 /\ r.blsYear = PyStr(r.sys_argv[2]) /\ r.blsMonth = PyStr(r.sys_argv[3])
UsesDefault(r) == r.blsYear = PyInt(r.lastMonthYear) /\ r.blsMonth = PyInt(r.lastMonth)

\* C10 as stated: the override is used exactly when two positional arguments
\* are given, and the default for every other count.
C10_OverrideIffExactlyTwo ==
    \A p \in SeqProcs :
        run[p].pc # "idle" =>
            IF Positional(run[p]) = 2 THEN UsesOverride(run[p]) ELSE UsesDefault(run[p])

\* C10 amended: the override (the first two arguments) is used exactly when
\* two or more positional arguments are given, the default with zero or one.
C10_OverrideIffTwoOrMore ==
    \A p \in SeqProcs :
        run[p].pc # "idle" =>
            IF Positional(run[p]) >= 2 THEN UsesOverride(run[p]) ELSE UsesDefault(run[p])

\* three positional arguments: the first two were taken as the period, and
\* the run went on with them
C10_Witness ==
    \E p \in SeqProcs :
        /\ Positional(run[p]) = 3
        /\ UsesOverride(run[p])
        /\ ~ UsesDefault(run[p])
        /\ run[p].pc = "apikey"

====
